---- MODULE Spec2Model ----
(***************************************************************************)
(* State-machine model of nocaptchaai_selenium/solver.py: the Solver       *)
(* object (its fields), the controller loop Solver.solve, the quota query  *)
(* has_balance, challenge detection is_captcha_visible, the classifier     *)
(* identify_challenge and the two solvers solve_hcaptcha_grid and          *)
(* solve_hcaptcha_bbox.  The browser and the solving service are the        *)
(* environment: every value they hand to the program is an input drawn     *)
(* with \E from a small set.                                               *)
(***************************************************************************)
EXTENDS Integers, Sequences, FiniteSets, TLC

(***************************************************************************)
(* Bounds of the model.                                                    *)
(***************************************************************************)
\* largest Balance / remaining value the balance endpoint answers with
MaxQuota == 2
\* most solve POSTs issued between two assignments of requests_left
MaxPosts == 3
\* longest continuation chain ("Next Challenge" labels in a row)
MaxDepth == 2
\* most "pending" answers of the status endpoint in one bbox step
MaxPolls == 2
\* most tiles a grid challenge shows
MaxTiles == 2
\* longest selection list of a solved grid response
MaxSel == 2
\* most segments a prompt text is concatenated from (classifier inputs)
MaxSegs == 2

(***************************************************************************)
(* Text.  A Python str is modelled as the sequence of its characters.      *)
(***************************************************************************)
UpperChars == <<"A","B","C","D","E","F","G","H","I","J","K","L","M","N","O","P","Q","R","S","T","U","V","W","X","Y","Z">>
LowerChars == <<"a","b","c","d","e","f","g","h","i","j","k","l","m","n","o","p","q","r","s","t","u","v","w","x","y","z">>
Whitespace == {" ", "\t", "\n"}

\* str.lower() on one character
LowerChar(c) ==
    IF \E i \in 1..Len(UpperChars) : UpperChars[i] = c
    THEN LowerChars[CHOOSE i \in 1..Len(UpperChars) : UpperChars[i] = c]
    ELSE c

\* str.lower()
Lower(s) == [i \in 1..Len(s) |-> LowerChar(s[i])]

\* str.strip(): drop leading and trailing whitespace
Strip(s) ==
    LET keep == {i \in 1..Len(s) : s[i] \notin Whitespace}
    IN  IF keep = {} THEN <<>>
        ELSE LET lo == CHOOSE i \in keep : \A j \in keep : i <= j
                 hi == CHOOSE i \in keep : \A j \in keep : j <= i
             IN  SubSeq(s, lo, hi)

\* Python's `keyword in target` on str: keyword is a contiguous substring
Contains(keyword, s) ==
    \E i \in 0..(Len(s) - Len(keyword)) : SubSeq(s, i + 1, i + Len(keyword)) = keyword

\* any(keyword in target for keyword in prompts)
AnyKeywordIn(prompts, s) == \E keyword \in prompts : Contains(keyword, s)

(***************************************************************************)
(* Module constants of solver.py.                                          *)
(***************************************************************************)
GRID_CHALLENGE_PROMPTS == {
    <<"p","l","e","a","s","e"," ","c","l","i","c","k"," ","e","a","c","h"," ","i","m","a","g","e"," ","c","o","n","t","a","i","n","i","n","g">>,
    <<"p","l","e","a","s","e"," ","c","l","i","c","k"," ","o","n"," ","a","l","l"," ","i","m","a","g","e","s"," ","c","o","n","t","a","i","n","i","n","g">> }

BOUNDING_BOX_CHALLENGE_PROMPTS == {
    <<"p","l","e","a","s","e"," ","c","l","i","c","k"," ","t","h","e"," ","c","e","n","t","e","r"," ","o","f"," ","t","h","e">>,
    <<"p","l","e","a","s","e"," ","c","l","i","c","k"," ","o","n"," ","t","h","e">> }

MULTIPLE_CHOICE_CHALLENGE_PROMPTS == {
    <<"s","e","l","e","c","t"," ","t","h","e"," ","m","o","s","t"," ","a","c","c","u","r","a","t","e"," ","d","e","s","c","r","i","p","t","i","o","n"," ","o","f"," ","t","h","e"," ","i","m","a","g","e">> }

\* the two tiers, keys of NOCAPTCHAAI_ENDPOINTS
Tiers == {"free", "pro"}

\* captcha_type values: None (no classification yet), 0 grid, 1 bbox, 2 choice
NoType == -1
GridType == 0
BBoxType == 1
ChoiceType == 2

\* target = None, the class attribute's value before the first detection
NoTarget == <<"<None>">>

(***************************************************************************)
(* identify_challenge: three independent ifs, each overwriting the type;   *)
(* a prompt that matches no phrase set leaves captcha_type as it was.      *)
(***************************************************************************)
IdentifyFirstMatchWins(text, old) ==
    LET t  == Strip(Lower(text))
        c0 == IF AnyKeywordIn(MULTIPLE_CHOICE_CHALLENGE_PROMPTS, t) THEN ChoiceType ELSE old
        c1 == IF AnyKeywordIn(BOUNDING_BOX_CHALLENGE_PROMPTS, t) THEN BBoxType ELSE c0
        c2 == IF AnyKeywordIn(GRID_CHALLENGE_PROMPTS, t) THEN GridType ELSE c1
    IN  c2

Identify(text, old) ==
    LET t  == Strip(Lower(text))
        c0 == IF AnyKeywordIn(GRID_CHALLENGE_PROMPTS, t) THEN GridType ELSE old
        c1 == IF AnyKeywordIn(BOUNDING_BOX_CHALLENGE_PROMPTS, t) THEN BBoxType ELSE c0
        c2 == IF AnyKeywordIn(MULTIPLE_CHOICE_CHALLENGE_PROMPTS, t) THEN ChoiceType ELSE c1
    IN  c2

(***************************************************************************)
(* Prompt texts the widget may show.                                       *)
(***************************************************************************)
SegGridEach == <<"P","l","e","a","s","e"," ","c","l","i","c","k"," ","e","a","c","h"," ","i","m","a","g","e"," ","c","o","n","t","a","i","n","i","n","g">>
SegGridAll == <<"p","l","e","a","s","e"," ","c","l","i","c","k"," ","o","n"," ","a","l","l"," ","i","m","a","g","e","s"," ","c","o","n","t","a","i","n","i","n","g">>
SegBoxCenter == <<"P","l","e","a","s","e"," ","c","l","i","c","k"," ","t","h","e"," ","c","e","n","t","e","r"," ","o","f"," ","t","h","e">>
SegBoxOn == <<"p","l","e","a","s","e"," ","c","l","i","c","k"," ","o","n"," ","t","h","e">>
SegBoxUpper == <<"P","L","E","A","S","E"," ","C","L","I","C","K"," ","O","N"," ","T","H","E">>
SegChoice == <<"S","e","l","e","c","t"," ","t","h","e"," ","m","o","s","t"," ","a","c","c","u","r","a","t","e"," ","d","e","s","c","r","i","p","t","i","o","n"," ","o","f"," ","t","h","e"," ","i","m","a","g","e">>
SegFiller == <<" ","a"," ","c","a","t",","," ">>
SegPartial == <<"p","l","e","a","s","e"," ","c","l","i","c","k"," ","o","n">>

Segments == {SegGridEach, SegGridAll, SegBoxCenter, SegBoxOn, SegBoxUpper,
             SegChoice, SegFiller, SegPartial}

\* every concatenation of at most n segments
RECURSIVE PromptsOf(_)
PromptsOf(n) ==
    IF n = 0 THEN {<<>>}
    ELSE LET shorter == PromptsOf(n - 1)
         IN  shorter \cup {p \o s : p \in shorter, s \in Segments}

\* the inputs of the classifier's own specification
AllPrompts == PromptsOf(MaxSegs)

\* the prompts the controller model detects: one grid, one bounding-box,
\* one multiple-choice and one that matches no phrase set
MainPrompts == {SegGridEach \o SegFiller, SegBoxCenter \o SegFiller,
                SegChoice, SegFiller}

(***************************************************************************)
(* State.                                                                  *)
(***************************************************************************)
VARIABLES
    api_url,        \* "free" | "pro": the tier, fixed by __init__
    api_error,      \* Solver.api_error
    balance,        \* Solver.balance
    requests_left,  \* Solver.requests_left
    solved,         \* Solver.solved
    target,         \* Solver.target: the prompt text last read
    captcha_type,   \* Solver.captcha_type
    ctx,            \* the driver's browsing context: "default" | "frame"
    pc,             \* the position of the one thread of control
    depth,          \* recursion depth of the running solver (0: called by solve)
    result,         \* "none" | "running" | "True" | "False" | "raised"
    exit,           \* how the last call of solve() ended
    iterOps,        \* operations performed in the current controller iteration
    events,         \* UI events of the solver step in progress, in order
    resp,           \* the solve response that step received
    labels,         \* submit-button titles read in the running solver invocation
    base,           \* requests_left as has_balance last assigned it (0 at start)
    posts,          \* solve POSTs issued since then
    polls,          \* status polls of the bbox step in progress
    bal,            \* the kind of balance response has_balance last handled
    acted           \* a solve POST has been issued on this Solver

vars == <<api_url, api_error, balance, requests_left, solved, target,
          captcha_type, ctx, pc, depth, result, exit, iterOps,
          events, resp, labels, base, posts, polls, bal, acted>>

session == <<api_error, balance, requests_left, solved, target, captcha_type>>
history == <<events, resp, labels, base, posts, polls, bal, acted>>

NoResp == [status |-> "none", solution |-> <<>>, nTiles |-> 0]
NoBal == "none"

\* the class attributes (lines 63-78); __init__ sets only key and tier
ObjectInit ==
    /\ api_url \in Tiers
    /\ api_error = FALSE
    /\ balance = 0
    /\ requests_left = 0
    /\ solved = FALSE
    /\ target = NoTarget
    /\ captcha_type = NoType
    /\ ctx = "default"
    /\ depth = 0
    /\ result = "none"
    /\ exit = "-"
    /\ iterOps = {}
    /\ events = <<>>
    /\ resp = NoResp
    /\ labels = <<>>
    /\ base = 0
    /\ posts = 0
    /\ polls = 0
    /\ bal = NoBal
    /\ acted = FALSE

Init == ObjectInit /\ pc = "idle"

BoolStr(b) == IF b THEN "True" ELSE "False"

\* the clicks and cursor moves the program asks of the driver
Event(kind, a, b) == <<kind, a, b>>
CheckboxClick == Event("checkbox", 0, 0)
TileClick(i) == Event("tile", i, 0)
SubmitClick == Event("submit", 0, 0)
RefreshClick == Event("refresh", 0, 0)

(***************************************************************************)
(* solve(): entry, loop test, quota check, dispatch, loop end.             *)
(***************************************************************************)
\* return self.solved, s being the value of self.solved at that point
Return(how, s) ==
    /\ pc' = "returned"
    /\ result' = BoolStr(s)
    /\ exit' = how

\* an exception leaves solve()
Raise(what) ==
    /\ pc' = "raised"
    /\ result' = "raised"
    /\ exit' = what

\* the caller loads a page and calls solve(driver): lines 485-487
SolveCall ==
    /\ pc \in {"idle", "returned", "raised"}
    /\ pc' = "loop"
    /\ result' = "running"
    /\ exit' = "-"
    /\ ctx' = "default"
    /\ depth' = 0
    /\ iterOps' = {}
    /\ events' = <<>>
    /\ resp' = NoResp
    /\ labels' = <<>>
    /\ polls' = 0
    /\ bal' = NoBal
    /\ UNCHANGED <<api_url, session, base, posts, acted>>

\* while not self.solved: ... / return self.solved (lines 489, 516)
LoopTestIgnoresSolved ==
    /\ pc = "loop"
    /\ pc' = "balance"
    /\ iterOps' = {}
    /\ UNCHANGED <<result, exit>>
    /\ UNCHANGED <<api_url, session, ctx, depth, history>>

LoopTest ==
    /\ pc = "loop"
    /\ IF solved
       THEN /\ Return("solved", solved)
            /\ UNCHANGED iterOps
       ELSE /\ pc' = "balance"
            /\ iterOps' = {}
            /\ UNCHANGED <<result, exit>>
    /\ UNCHANGED <<api_url, session, ctx, depth, history>>

(***************************************************************************)
(* has_balance (lines 431-468).  The balance response: ok is the truth     *)
(* value of the requests Response (HTTP status below 400), keys the keys   *)
(* of its JSON body.                                                       *)
(***************************************************************************)
BalanceKeys == {"error", "remaining", "Balance", "Subscription"}

\* A failed exchange has no body the code reads; the value of a key the
\* body lacks is written 0.
BalanceResponses ==
    {r \in [ok : BOOLEAN, keys : SUBSET BalanceKeys, Balance : 0..MaxQuota,
            remaining : 0..MaxQuota, subRemaining : 0..MaxQuota] :
        /\ ~r.ok => r.keys = {}
        /\ "Balance" \notin r.keys => r.Balance = 0
        /\ "remaining" \notin r.keys => r.remaining = 0
        /\ "Subscription" \notin r.keys => r.subRemaining = 0}

Counters(e, b, r) == [api_error |-> e, balance |-> b, requests_left |-> r]

HasBalanceSwapped(tier, r, st) ==
    IF ~r.ok THEN Counters(TRUE, st.balance, st.requests_left)
    ELSE IF "error" \in r.keys THEN st
    ELSE IF tier = "pro" /\ "Subscription" \in r.keys /\ "Balance" \in r.keys
         THEN Counters(st.api_error, r.subRemaining, r.Balance)
    ELSE IF tier = "free" /\ "remaining" \in r.keys
         THEN Counters(st.api_error, r.remaining, 0)
    ELSE Counters(TRUE, st.balance, st.requests_left)

HasBalanceErrorFlags(tier, r, st) ==
    IF ~r.ok THEN Counters(TRUE, st.balance, st.requests_left)
    ELSE IF "error" \in r.keys THEN Counters(TRUE, st.balance, st.requests_left)
    ELSE IF tier = "pro" /\ "Subscription" \in r.keys /\ "Balance" \in r.keys
         THEN Counters(st.api_error, r.Balance, r.subRemaining)
    ELSE IF tier = "free" /\ "remaining" \in r.keys
         THEN Counters(st.api_error, 0, r.remaining)
    ELSE Counters(TRUE, st.balance, st.requests_left)

HasBalanceResult(tier, r, st) ==
    IF ~r.ok THEN Counters(TRUE, st.balance, st.requests_left)
    ELSE IF "error" \in r.keys THEN st
    ELSE IF tier = "pro" /\ "Subscription" \in r.keys /\ "Balance" \in r.keys
         THEN Counters(st.api_error, r.Balance, r.subRemaining)
    ELSE IF tier = "free" /\ "remaining" \in r.keys
         THEN Counters(st.api_error, 0, r.remaining)
    ELSE Counters(TRUE, st.balance, st.requests_left)

\* the shape of a balance response, as the tier's schema reads it: a failed
\* HTTP exchange, a body with an error field, a body of the tier's shape
\* (pro: Balance and Subscription.remaining; free: remaining), or neither
HasTierShape(tier, keys) ==
    \/ tier = "pro" /\ {"Subscription", "Balance"} \subseteq keys
    \/ tier = "free" /\ "remaining" \in keys

ResponseKind(tier, r) ==
    IF ~r.ok THEN "http_failure"
    ELSE IF "error" \in r.keys THEN "error_field"
    ELSE IF HasTierShape(tier, r.keys) THEN "tier_shape"
    ELSE "no_shape"

\* self.has_balance() (line 490)
HasBalance(r) ==
    /\ pc = "balance"
    /\ LET new == HasBalanceResult(api_url, r,
                      Counters(api_error, balance, requests_left))
           assigned == ResponseKind(api_url, r) = "tier_shape"
       IN  /\ api_error' = new.api_error
           /\ balance' = new.balance
           /\ requests_left' = new.requests_left
           /\ IF assigned
              THEN /\ base' = new.requests_left
                   /\ posts' = 0
              ELSE UNCHANGED <<base, posts>>
    /\ bal' = ResponseKind(api_url, r)
    /\ iterOps' = iterOps \cup {"has_balance"}
    /\ UNCHANGED acted
    /\ pc' = "quota"
    /\ UNCHANGED <<api_url, solved, target, captcha_type, ctx, depth,
                   result, exit, events, resp, labels, polls>>

\* if self.balance <= 0 and self.requests_left <= 0 (line 493)
QuotaExhaustedStrict(b, r) == b <= 0 /\ r < 0

QuotaExhausted(b, r) == b <= 0 /\ r <= 0

\* lines 493-496
QuotaCheck ==
    /\ pc = "quota"
    /\ IF QuotaExhausted(balance, requests_left)
       THEN /\ api_error' = TRUE
            /\ Return("quota", solved)
            /\ UNCHANGED bal
       ELSE /\ pc' = "detect"
            /\ bal' = NoBal
            /\ UNCHANGED <<api_error, result, exit>>
    /\ UNCHANGED <<api_url, balance, requests_left, solved, target,
                   captcha_type, ctx, depth, iterOps, events, resp,
                   labels, base, posts, polls, acted>>

(***************************************************************************)
(* is_captcha_visible (lines 124-167).  Inputs: whether the content frame  *)
(* is clickable within 1 s (already), whether the checkbox is (checkbox),  *)
(* whether the content frame is clickable within 10 s after that (after),  *)
(* whether the frame is present within 2 s (present), and the prompt text. *)
(***************************************************************************)
IsCaptchaVisible(already, checkbox, after, present, prompt) ==
    /\ pc = "detect"
    /\ iterOps' = iterOps \cup {"is_captcha_visible"}
    /\ events' = IF ~already /\ checkbox THEN <<CheckboxClick>> ELSE <<>>
    /\ IF ~already /\ ~after
              THEN \* return False -> break (line 500) -> return self.solved
                   /\ Return("not_visible", solved)
                   /\ UNCHANGED <<target, ctx>>
              ELSE IF ~present
              THEN \* the unguarded wait of line 150 times out
                   /\ Raise("TimeoutException")
                   /\ UNCHANGED <<target, ctx>>
              ELSE /\ target' = prompt
                   /\ ctx' = "default"
                   /\ pc' = "identify"
                   /\ UNCHANGED <<result, exit>>
    /\ UNCHANGED <<api_url, api_error, balance, requests_left, solved,
                   captcha_type, depth, resp, labels, base, posts, polls,
                   bal, acted>>

\* self.identify_challenge() (line 503)
IdentifyChallenge ==
    /\ pc = "identify"
    /\ captcha_type' = Identify(target, captcha_type)
    /\ iterOps' = iterOps \cup {"identify_challenge"}
    /\ pc' = "dispatch"
    /\ UNCHANGED <<api_url, api_error, balance, requests_left, solved, target,
                   ctx, depth, result, exit, history>>

\* match self.captcha_type (lines 505-511): the position control goes to
DispatchTarget(t) ==
    CASE t = GridType -> "grid_entry"
      [] t = BBoxType -> "bbox_entry"
      [] t = ChoiceType -> "break"
      [] OTHER -> "loop_end"

Dispatch ==
    /\ pc = "dispatch"
    /\ LET to == DispatchTarget(captcha_type)
       IN  IF to = "break"
           THEN Return("unsupported", solved)
           ELSE /\ pc' = to
                /\ UNCHANGED <<result, exit>>
    /\ depth' = 0
    /\ labels' = <<>>
    /\ UNCHANGED <<api_url, session, ctx, iterOps, events, resp, base,
                   posts, polls, bal, acted>>

\* if not self.solved: time.sleep(2) (lines 513-514), then the loop test
LoopEnd ==
    /\ pc = "loop_end"
    /\ pc' = "loop"
    /\ events' = <<>>
    /\ resp' = NoResp
    /\ labels' = <<>>
    /\ polls' = 0
    /\ depth' = 0
    /\ UNCHANGED <<api_url, session, ctx, result, exit, iterOps, base,
                   posts, bal, acted>>

(***************************************************************************)
(* What the two solvers share.                                             *)
(***************************************************************************)
\* button.get_attribute("title"): a title, or None when the attribute is absent
Labels == {"Next Challenge", "Verify Answers", "None"}

\* if label == "Next Challenge" (lines 265, 428)
IsContinuationNotVerify(label) == label # "Verify Answers"

IsContinuation(label) == label = "Next Challenge"


\* self.requests_left -= 1 (lines 245, 362)
AfterPostUnchanged(r) == r

AfterPost(r) == r - 1

\* a solver returns to solve(), through every frame of its recursion
SolverReturns == pc' = "loop_end"

\* the entry check of both solvers (lines 175-179, 280-284): the value
\* self.solved has after it
EntrySetsSolvedAlways(clickable, s) == TRUE

EntrySetsSolved(clickable, s) == IF ~clickable THEN TRUE ELSE s

(***************************************************************************)
(* solve_hcaptcha_grid (lines 169-272).                                    *)
(***************************************************************************)
GridEntry(clickable) ==
    /\ pc = "grid_entry"
    /\ solved' = EntrySetsSolved(clickable, solved)
    /\ IF ~clickable
       THEN /\ SolverReturns
            /\ resp' = [NoResp EXCEPT !.status = "gone"]
            /\ UNCHANGED ctx
       ELSE /\ pc' = "grid_tiles"
            /\ resp' = NoResp
            /\ ctx' = "frame"
    /\ events' = <<>>
    /\ polls' = 0
    /\ iterOps' = iterOps \cup {"solve_hcaptcha_grid"}
    /\ UNCHANGED <<api_url, api_error, balance, requests_left, target,
                   captcha_type, depth, result, exit, labels, base,
                   posts, bal, acted>>

\* lines 187-222: n tiles are enumerated; missing says that a tile's
\* style attribute reads None
GridTiles(n, missing) ==
    /\ pc = "grid_tiles"
    /\ missing => n >= 1
    /\ IF missing
       THEN /\ SolverReturns
            /\ resp' = [NoResp EXCEPT !.status = "no_style"]
       ELSE /\ pc' = "grid_post"
            /\ resp' = [NoResp EXCEPT !.nTiles = n]
    /\ UNCHANGED <<api_url, session, ctx, depth, result, exit, iterOps,
                   events, labels, base, posts, polls, bal, acted>>

\* the selection lists a solved response may carry: tile indices below
\* MaxTiles, past the end of an enumeration of fewer tiles
RECURSIVE SeqsUpTo(_, _)
SeqsUpTo(S, n) ==
    IF n = 0 THEN {<<>>}
    ELSE LET shorter == SeqsUpTo(S, n - 1)
         IN  shorter \cup {Append(q, x) : q \in shorter, x \in S}

Selections == SeqsUpTo(0..(MaxTiles - 1), MaxSel)

\* for index in correct_images: click images[index] (lines 251-253);
\* images[index] raises IndexError past the end
RECURSIVE ClickLoop(_, _, _)
ClickLoop(sol, n, done) ==
    IF sol = <<>> THEN [events |-> done, raised |-> FALSE]
    ELSE IF Head(sol) >= n THEN [events |-> done, raised |-> TRUE]
    ELSE ClickLoop(Tail(sol), n, Append(done, TileClick(Head(sol))))

RECURSIVE Ascending(_)
Ascending(S) ==
    IF S = {} THEN <<>>
    ELSE LET m == CHOOSE x \in S : \A y \in S : x <= y
         IN  <<m>> \o Ascending(S \ {m})

TileClicksAscending(sol, n) ==
    ClickLoop(Ascending({sol[i] : i \in 1..Len(sol)}), n, <<>>)

TileClicks(sol, n) == ClickLoop(sol, n, <<>>)

GridStatuses == {"solved", "skip", "error", "queued"}

\* lines 233-272: the POST, the decrement and the handling of the response
GridPost(status, solution, label) ==
    /\ pc = "grid_post"
    /\ posts < MaxPosts
    /\ status # "solved" => solution = <<>> /\ label = "None"
    /\ label = "Next Challenge" => depth < MaxDepth
    /\ requests_left' = AfterPost(requests_left)
    /\ posts' = posts + 1
    /\ iterOps' = iterOps \cup {"post"}
    /\ resp' = [status |-> status, solution |-> solution, nTiles |-> resp.nTiles]
    /\ IF status = "solved"
       THEN LET loop == TileClicks(solution, resp.nTiles)
            IN  IF loop.raised
                THEN /\ events' = loop.events
                     /\ Raise("IndexError")
                     /\ UNCHANGED <<ctx, depth, labels>>
                ELSE /\ events' = Append(loop.events, SubmitClick)
                     /\ ctx' = "default"
                     /\ labels' = Append(labels, label)
                     /\ UNCHANGED <<result, exit>>
                     /\ IF IsContinuation(label)
                        THEN /\ pc' = "grid_entry"
                             /\ depth' = depth + 1
                        ELSE /\ SolverReturns
                             /\ UNCHANGED depth
       ELSE IF status \in {"skip", "error"}
       THEN /\ events' = <<RefreshClick>>
            /\ ctx' = "default"
            /\ SolverReturns
            /\ UNCHANGED <<depth, labels, result, exit>>
       ELSE /\ SolverReturns
            /\ UNCHANGED <<events, ctx, depth, labels, result, exit>>
    /\ acted' = TRUE
    /\ UNCHANGED <<api_url, api_error, balance, solved, target, captcha_type,
                   base, polls, bal>>

(***************************************************************************)
(* solve_hcaptcha_bbox (lines 274-429).                                    *)
(***************************************************************************)
BboxEntry(clickable) ==
    /\ pc = "bbox_entry"
    /\ solved' = EntrySetsSolved(clickable, solved)
    /\ IF ~clickable
       THEN /\ SolverReturns
            /\ resp' = [NoResp EXCEPT !.status = "gone"]
       ELSE /\ pc' = "bbox_snapshot"
            /\ resp' = NoResp
    /\ events' = <<>>
    /\ polls' = 0
    /\ iterOps' = iterOps \cup {"solve_hcaptcha_bbox"}
    /\ UNCHANGED <<api_url, api_error, balance, requests_left, target,
                   captcha_type, ctx, depth, result, exit, labels,
                   base, posts, bal, acted>>

\* lines 327-335: switch into the frame, take the canvas snapshot; empty
\* says that the script returned null or ""
BboxSnapshot(empty) ==
    /\ pc = "bbox_snapshot"
    /\ ctx' = "frame"
    /\ IF empty
       THEN /\ SolverReturns
            /\ resp' = [NoResp EXCEPT !.status = "no_image"]
       ELSE /\ pc' = "bbox_post"
            /\ UNCHANGED resp
    /\ UNCHANGED <<api_url, session, depth, result, exit, iterOps,
                   events, labels, base, posts, polls, bal, acted>>

\* the statuses the solve endpoint answers a bbox POST with
BboxPostStatuses == {"error", "new", "skip"}

\* lines 350-375: the POST, the decrement, the error branch
BboxPostIgnoresError(status) ==
    /\ pc = "bbox_post"
    /\ posts < MaxPosts
    /\ requests_left' = AfterPost(requests_left)
    /\ posts' = posts + 1
    /\ iterOps' = iterOps \cup {"post"}
    /\ resp' = [NoResp EXCEPT !.status = status]
    /\ pc' = "bbox_poll"
    /\ UNCHANGED <<events, ctx>>
    /\ acted' = TRUE
    /\ UNCHANGED <<api_url, api_error, balance, solved, target, captcha_type,
                   depth, result, exit, labels, base, polls, bal>>

BboxPost(status) ==
    /\ pc = "bbox_post"
    /\ posts < MaxPosts
    /\ requests_left' = AfterPost(requests_left)
    /\ posts' = posts + 1
    /\ iterOps' = iterOps \cup {"post"}
    /\ resp' = [NoResp EXCEPT !.status = status]
    /\ IF status = "error"
       THEN /\ events' = <<RefreshClick>>
            /\ ctx' = "default"
            /\ SolverReturns
       ELSE /\ pc' = "bbox_poll"
            /\ UNCHANGED <<events, ctx>>
    /\ acted' = TRUE
    /\ UNCHANGED <<api_url, api_error, balance, solved, target, captcha_type,
                   depth, result, exit, labels, base, polls, bal>>

\* the statuses the status endpoint answers a poll with
PollStatuses == {"solved", "skip", "error", "queued"}

\* one iteration of the while True loop (lines 378-396)
BboxPollLeavesOnAnyAnswer(status) ==
    /\ pc = "bbox_poll"
    /\ status \notin {"solved", "skip", "error"} => polls < MaxPolls
    /\ polls' = polls + 1
    /\ resp' = [NoResp EXCEPT !.status = status]
    /\ IF status = "solved"
       THEN /\ pc' = "bbox_click"
            /\ UNCHANGED <<events, ctx>>
       ELSE /\ events' = <<RefreshClick>>
            /\ ctx' = "default"
            /\ SolverReturns
    /\ UNCHANGED <<api_url, session, depth, result, exit, iterOps,
                   labels, base, posts, bal, acted>>

BboxPoll(status) ==
    /\ pc = "bbox_poll"
    /\ status \notin {"solved", "skip", "error"} => polls < MaxPolls
    /\ polls' = polls + 1
    /\ resp' = [NoResp EXCEPT !.status = status]
    /\ IF status \in {"error", "skip"}
       THEN /\ events' = <<RefreshClick>>
            /\ ctx' = "default"
            /\ SolverReturns
       ELSE IF status = "solved"
       THEN /\ pc' = "bbox_click"
            /\ UNCHANGED <<events, ctx>>
       ELSE /\ pc' = "bbox_poll"
            /\ UNCHANGED <<events, ctx>>
    /\ UNCHANGED <<api_url, session, depth, result, exit, iterOps,
                   labels, base, posts, bal, acted>>

\* answers and canvas sizes, in pixels
AnswerCoords == {0, 3}
CanvasWidths == {3}
CanvasHeights == {4}

\* lines 405-413: move_by_offset(move_by_x * -1, move_by_y * -1) with
\* move_by = size / 2 - pos (true division); in half pixels
MoveByOffset2NotNegated(x, y, w, h) == <<w - 2 * x, h - 2 * y>>

MoveByOffset2(x, y, w, h) == <<-1 * (w - 2 * x), -1 * (h - 2 * y)>>

\* lines 398-429: the click at the answer, the submit, the continuation
BboxClick(x, y, w, h, label) ==
    /\ pc = "bbox_click"
    /\ label = "Next Challenge" => depth < MaxDepth
    /\ LET off == MoveByOffset2(x, y, w, h)
       IN  events' = << Event("move_to_element", w, h),
                        Event("move_by_offset2", off[1], off[2]),
                        Event("click", x, y),
                        SubmitClick >>
    /\ ctx' = "default"
    /\ labels' = Append(labels, label)
    /\ IF IsContinuation(label)
       THEN /\ pc' = "bbox_entry"
            /\ depth' = depth + 1
       ELSE /\ SolverReturns
            /\ UNCHANGED depth
    /\ UNCHANGED <<api_url, session, result, exit, iterOps, resp,
                   base, posts, polls, bal, acted>>

(***************************************************************************)
(* The specification.                                                      *)
(***************************************************************************)
Next ==
    \/ SolveCall
    \/ LoopTest
    \/ \E r \in BalanceResponses : HasBalance(r)
    \/ QuotaCheck
    \/ \E already, checkbox, after, present \in BOOLEAN :
           \E prompt \in MainPrompts :
               IsCaptchaVisible(already, checkbox, after, present, prompt)
    \/ IdentifyChallenge
    \/ Dispatch
    \/ LoopEnd
    \/ \E clickable \in BOOLEAN : GridEntry(clickable)
    \/ \E n \in 0..MaxTiles : \E missing \in BOOLEAN : GridTiles(n, missing)
    \/ \E status \in GridStatuses : \E solution \in Selections :
           \E label \in Labels : GridPost(status, solution, label)
    \/ \E clickable \in BOOLEAN : BboxEntry(clickable)
    \/ \E empty \in BOOLEAN : BboxSnapshot(empty)
    \/ \E status \in BboxPostStatuses : BboxPost(status)
    \/ \E status \in PollStatuses : BboxPoll(status)
    \/ \E x, y \in AnswerCoords : \E w \in CanvasWidths : \E h \in CanvasHeights :
           \E label \in Labels : BboxClick(x, y, w, h, label)

Spec == Init /\ [][Next]_vars

(***************************************************************************)
(* The classifier on its own: identify_challenge applied to every prompt   *)
(* of AllPrompts, from every earlier value of captcha_type, at the point   *)
(* of solve() that calls it (line 503).                                    *)
(***************************************************************************)
ClassifyInit ==
    /\ api_url \in Tiers
    /\ api_error = FALSE
    /\ balance = 0
    /\ requests_left = 1
    /\ solved = FALSE
    /\ target \in AllPrompts
    /\ captcha_type \in {NoType, GridType, BBoxType, ChoiceType}
    /\ ctx = "default"
    /\ pc = "identify"
    /\ depth = 0
    /\ result = "running"
    /\ exit = "-"
    /\ iterOps = {"has_balance", "is_captcha_visible"}
    /\ events = <<>>
    /\ resp = NoResp
    /\ labels = <<>>
    /\ base = 1
    /\ posts = 0
    /\ polls = 0
    /\ bal = NoBal
    /\ acted = FALSE

ClassifyNext == IdentifyChallenge

SpecClassify == ClassifyInit /\ [][ClassifyNext]_vars

(***************************************************************************)
(* solve() under a service that consumes one request per solve POST and    *)
(* never refills: a balance response does not raise the total quota        *)
(* (balance + requests_left) above what the counters still hold.  The      *)
(* first assignment of a Solver whose counters are still the class         *)
(* attributes' zeros may be any quota.  The thread of control is never     *)
(* suspended for ever: weak fairness of the step relation.                 *)
(***************************************************************************)
NoRefill(r) ==
    LET new == HasBalanceResult(api_url, r,
                   Counters(api_error, balance, requests_left))
        now == balance + requests_left
    IN  \/ balance = 0 /\ requests_left = 0 /\ posts = 0
        \/ new.balance + new.requests_left <= (IF now > 0 THEN now ELSE 0)
        \/ new.balance = balance /\ new.requests_left = requests_left

\* self.has_balance() answered by such a service
LiveHasBalance(r) == NoRefill(r) /\ HasBalance(r)

\* the enumeration of solve POSTs ends here
AtBound == pc \in {"grid_post", "bbox_post"} /\ posts >= MaxPosts

LiveNext ==
    \/ SolveCall
    \/ LoopTest
    \/ \E r \in BalanceResponses : LiveHasBalance(r)
    \/ QuotaCheck
    \/ \E already, checkbox, after, present \in BOOLEAN :
           \E prompt \in MainPrompts :
               IsCaptchaVisible(already, checkbox, after, present, prompt)
    \/ IdentifyChallenge
    \/ Dispatch
    \/ LoopEnd
    \/ \E clickable \in BOOLEAN : GridEntry(clickable)
    \/ \E n \in 0..MaxTiles : \E missing \in BOOLEAN : GridTiles(n, missing)
    \/ \E status \in GridStatuses : \E solution \in Selections :
           \E label \in Labels : GridPost(status, solution, label)
    \/ \E clickable \in BOOLEAN : BboxEntry(clickable)
    \/ \E empty \in BOOLEAN : BboxSnapshot(empty)
    \/ \E status \in BboxPostStatuses : BboxPost(status)
    \/ \E status \in PollStatuses : BboxPoll(status)
    \/ \E x, y \in AnswerCoords : \E w \in CanvasWidths : \E h \in CanvasHeights :
           \E label \in Labels : BboxClick(x, y, w, h, label)

SpecLive == Init /\ [][LiveNext]_vars /\ WF_vars(LiveNext)

(***************************************************************************)
(* What the claims speak of.                                               *)
(***************************************************************************)
\* the phrase sets a prompt text matches, read off the text itself
MatchesGrid(text) == AnyKeywordIn(GRID_CHALLENGE_PROMPTS, Strip(Lower(text)))
MatchesBBox(text) == AnyKeywordIn(BOUNDING_BOX_CHALLENGE_PROMPTS, Strip(Lower(text)))
MatchesChoice(text) == AnyKeywordIn(MULTIPLE_CHOICE_CHALLENGE_PROMPTS, Strip(Lower(text)))
MatchesNone(text) == ~MatchesGrid(text) /\ ~MatchesBBox(text) /\ ~MatchesChoice(text)

SolverOps == {"solve_hcaptcha_grid", "solve_hcaptcha_bbox", "post"}
EntryPcs == {"grid_entry", "bbox_entry"}

\* the balance responses of a kind, per tier
BodiesOfKind ==
    [tier \in Tiers, kind \in {"tier_shape", "no_shape"} |->
        {r \in BalanceResponses : ResponseKind(tier, r) = kind}]

\* the challenge of this iteration has been classified and dispatched
Dispatched == "identify_challenge" \in iterOps /\ pc # "dispatch"

(***************************************************************************)
(* C1.  When the detected challenge is MultipleChoice or Unknown (its      *)
(* prompt matches the multiple-choice phrases, or no phrase set), the      *)
(* controller leaves the loop and returns: no solver runs and no further   *)
(* iteration starts.  The code does so for MultipleChoice only: the match  *)
(* statement has no default case.                                          *)
(***************************************************************************)
C1_UnsupportedTypeExitsLoop ==
    (Dispatched /\ (MatchesChoice(target) \/ MatchesNone(target)))
        => /\ pc = "returned"
           /\ exit = "unsupported"
           /\ iterOps \cap SolverOps = {}

(***************************************************************************)
(* C3.  solve() returns True when the loop ends because is_captcha_visible *)
(* reports no challenge (the controller's "it has been solved").  The code *)
(* returns self.solved, which nothing on that path has set.                *)
(***************************************************************************)
C3_NotVisibleReturnsTrue ==
    (pc = "returned" /\ exit = "not_visible") => result = "True"

(***************************************************************************)
(* C4.  In every iteration, if after the balance refresh balance <= 0 and  *)
(* requests_left <= 0, solve() sets api_error and returns False with       *)
(* solved false, and has_balance is the only operation of that iteration:  *)
(* no detection, no classification, no solver, no solve POST.              *)
(***************************************************************************)
C4_ExhaustedQuotaAborts ==
    [][(pc = "quota" /\ balance <= 0 /\ requests_left <= 0)
          => /\ pc' = "returned"
             /\ exit' = "quota"
             /\ api_error'
             /\ ~solved'
             /\ result' = "False"
             /\ iterOps' = {"has_balance"}
             /\ events' = <<>>
             /\ UNCHANGED <<target, captcha_type, requests_left, balance, ctx>>]_vars

C4_Witness ==
    /\ pc = "returned"
    /\ exit = "quota"
    /\ acted
    /\ requests_left = 0
    /\ bal = "tier_shape"

(***************************************************************************)
(* C2.  As claimed: solved becomes true only at a solver's re-check of the *)
(* widget made after a solve action, finding the content frame no longer   *)
(* clickable.  The entry check of a solver also runs before the first      *)
(* solve action, so this fails.                                            *)
(***************************************************************************)
C2_SolvedOnlyAfterSolveAction ==
    [][(~solved /\ solved')
          => /\ pc \in EntryPcs
             /\ resp'.status = "gone"
             /\ acted]_vars

(***************************************************************************)
(* C2, amended.  solved becomes true only at the entry check of a solver   *)
(* (lines 177-179, 282-284) that finds the content frame not clickable,    *)
(* whether or not a solve action came before it; no response of the        *)
(* service sets it, so a solver that applied and submitted a solved answer *)
(* and met no continuation returns with solved still false, and the        *)
(* controller goes on to another iteration.                                *)
(***************************************************************************)
C2_SolvedOnlyAtEntryRecheck ==
    [][/\ (~solved /\ solved') => (pc \in EntryPcs /\ resp'.status = "gone")
       /\ pc \notin EntryPcs => solved' = solved
       /\ (pc \in {"grid_post", "bbox_click"} /\ pc' = "loop_end"
             /\ resp'.status = "solved")
            => (~solved' /\ events'[Len(events')] = SubmitClick)
       /\ (pc = "loop_end" /\ ~solved) => pc' = "loop"
       /\ (pc = "loop" /\ ~solved) => pc' = "balance"]_vars

C2_Witness ==
    /\ solved
    /\ pc = "loop_end"
    /\ resp.status = "gone"
    /\ depth = 1
    /\ labels = <<"Next Challenge">>
    /\ acted

(***************************************************************************)
(* C5.  requests_left goes down by exactly 1 at each solve POST (grid or   *)
(* bbox) and is left alone by every poll of the status endpoint; so        *)
(* requests_left is what has_balance last assigned minus the POSTs issued  *)
(* since, and k POSTs after an assignment of k leave 0, whatever the       *)
(* number of polls.                                                        *)
(***************************************************************************)
C5_OneDecrementPerPost ==
    [][/\ pc \in {"grid_post", "bbox_post"}
            => (requests_left' = requests_left - 1 /\ posts' = posts + 1)
       /\ pc = "bbox_poll" => (requests_left' = requests_left /\ posts' = posts)
       /\ pc \notin {"grid_post", "bbox_post", "balance"}
            => (requests_left' = requests_left /\ posts' = posts)
       /\ requests_left' = base' - posts'
       /\ posts' = base' => requests_left' = 0]_vars

C5_Witness ==
    /\ base = 2
    /\ posts = 2
    /\ requests_left = 0
    /\ polls = 3
    /\ pc = "bbox_click"

(***************************************************************************)
(* C6.  A grid or bbox step that applied a solved answer re-invokes its    *)
(* solver exactly once when the submit button's title, read before the     *)
(* click, is "Next Challenge", and returns without recursing for every     *)
(* other title and for a missing one; the recursion depth is the number of *)
(* consecutive steps whose title was "Next Challenge".                     *)
(***************************************************************************)
C6_ContinuationRecursesOnce ==
    [][/\ (pc \in {"grid_post", "bbox_click"} /\ labels' # labels)
            => LET label == labels'[Len(labels')]
               IN  /\ labels' = Append(labels, label)
                   /\ IF label = "Next Challenge"
                      THEN /\ depth' = depth + 1
                           /\ pc' = (IF pc = "grid_post" THEN "grid_entry"
                                                         ELSE "bbox_entry")
                      ELSE /\ depth' = depth
                           /\ pc' = "loop_end"
       /\ (pc' \in {"grid_entry", "grid_tiles", "grid_post", "bbox_entry",
                    "bbox_snapshot", "bbox_post", "bbox_poll", "bbox_click"})
            => /\ depth' = Len(labels')
               /\ \A i \in 1..Len(labels') : labels'[i] = "Next Challenge"]_vars

C6_Witness ==
    /\ pc = "loop_end"
    /\ depth = 2
    /\ labels = <<"Next Challenge", "Next Challenge", "None">>

(***************************************************************************)
(* C7.  has_balance maps a balance response (a successful exchange whose   *)
(* body has no error field) by tier: free with remaining = r gives         *)
(* balance = 0 and requests_left = r; pro with Balance = b and             *)
(* Subscription.remaining = r gives balance = b and requests_left = r;     *)
(* a body of neither shape for the configured tier sets api_error and      *)
(* leaves balance and requests_left as they were.                          *)
(***************************************************************************)
C7_BalanceMappingByTier ==
    [][(pc = "balance" /\ bal' \in {"tier_shape", "no_shape"})
       => \A r \in BodiesOfKind[api_url, bal'] :
          (HasBalance(r) /\ r.ok /\ "error" \notin r.keys)
             => /\ (api_url = "free" /\ "remaining" \in r.keys)
                     => /\ balance' = 0
                        /\ requests_left' = r.remaining
                        /\ api_error' = api_error
                /\ (api_url = "pro" /\ "Balance" \in r.keys
                                    /\ "Subscription" \in r.keys)
                     => /\ balance' = r.Balance
                        /\ requests_left' = r.subRemaining
                        /\ api_error' = api_error
                /\ ~HasTierShape(api_url, r.keys)
                     => /\ api_error'
                        /\ balance' = balance
                        /\ requests_left' = requests_left]_vars

C7_Witness ==
    /\ pc = "quota"
    /\ api_url = "pro"
    /\ bal = "tier_shape"
    /\ balance = 2
    /\ requests_left = 1
    /\ base = 1
    /\ ~api_error

(***************************************************************************)
(* C8.  A balance response whose body carries an error field leaves        *)
(* balance, requests_left, api_error and solved as they were, and the      *)
(* controller applies its exhaustion test to those unchanged counters: it  *)
(* aborts exactly when both are <= 0.                                      *)
(***************************************************************************)
C8_ErrorFieldLeavesCounters ==
    [][/\ (pc = "balance" /\ bal' = "error_field")
            => UNCHANGED <<balance, requests_left, api_error, solved>>
       /\ (pc = "quota" /\ bal = "error_field")
            => IF balance <= 0 /\ requests_left <= 0
               THEN pc' = "returned" /\ exit' = "quota" /\ bal' = bal
               ELSE pc' = "detect"]_vars

C8_Witness ==
    /\ pc = "returned"
    /\ exit = "quota"
    /\ bal = "error_field"
    /\ acted
    /\ base = 1
    /\ requests_left = 0

(***************************************************************************)
(* C9.  identify_challenge matches the lower-cased, trimmed prompt against *)
(* the three phrase sets in the order grid, bounding box, multiple choice, *)
(* and the type is that of the last set that matches: a prompt with a grid *)
(* phrase and a bounding-box phrase and no multiple-choice phrase is       *)
(* classified BoundingBox.                                                 *)
(***************************************************************************)
C9_LastMatchWins ==
    pc = "dispatch"
       => /\ MatchesChoice(target) => captcha_type = ChoiceType
          /\ (MatchesBBox(target) /\ ~MatchesChoice(target))
                => captcha_type = BBoxType
          /\ (MatchesGrid(target) /\ ~MatchesBBox(target) /\ ~MatchesChoice(target))
                => captcha_type = GridType

C9_Witness ==
    /\ pc = "dispatch"
    /\ target = SegGridEach \o SegBoxOn
    /\ MatchesGrid(target)
    /\ MatchesBBox(target)
    /\ ~MatchesChoice(target)
    /\ captcha_type = BBoxType

(***************************************************************************)
(* C10.  On a grid response with status solved and a selection S of tiles  *)
(* that were enumerated, the clicks before the submit click are exactly    *)
(* S: one click per occurrence of an index, in the order the service gave, *)
(* no other tile, and the submit click last.                               *)
(***************************************************************************)
C10_TilesClickedInOrder ==
    LET S == resp.solution
    IN  (/\ resp.status = "solved"
         /\ "solve_hcaptcha_grid" \in iterOps
         /\ \A i \in 1..Len(S) : S[i] < resp.nTiles)
           => /\ pc \in {"loop_end", "grid_entry"}
              /\ Len(events) = Len(S) + 1
              /\ \A i \in 1..Len(S) : events[i] = <<"tile", S[i], 0>>
              /\ events[Len(S) + 1] = <<"submit", 0, 0>>

C10_Witness ==
    /\ resp.status = "solved"
    /\ resp.nTiles = 2
    /\ resp.solution = <<1, 0>>
    /\ events = <<TileClick(1), TileClick(0), SubmitClick>>
    /\ pc = "loop_end"

(***************************************************************************)
(* C11.  For a bbox answer (x, y) and a canvas of size (w, h) the cursor   *)
(* is moved to the canvas centre, then by (x - w/2, y - h/2), the computed *)
(* offset (w/2 - x, h/2 - y) negated on both axes, then clicked once and   *)
(* before the submit click.  Offsets are in half pixels: 2x - w, 2y - h.   *)
(***************************************************************************)
C11_ClickOffsetFromCentre ==
    (resp.status = "solved" /\ "solve_hcaptcha_bbox" \in iterOps
        /\ pc \in {"loop_end", "bbox_entry"})
      => /\ Len(events) = 4
         /\ events[1][1] = "move_to_element"
         /\ events[3][1] = "click"
         /\ LET w == events[1][2]
                h == events[1][3]
                x == events[3][2]
                y == events[3][3]
            IN  events[2] = <<"move_by_offset2", 2 * x - w, 2 * y - h>>
         /\ events[4] = SubmitClick

C11_Witness ==
    /\ pc = "loop_end"
    /\ resp.status = "solved"
    /\ events = << Event("move_to_element", 3, 4),
                   Event("move_by_offset2", 3, -4),
                   Event("click", 3, 0),
                   SubmitClick >>

(***************************************************************************)
(* C12.  Every solve POST, those of continuation steps included, comes     *)
(* after a balance refresh made since the previous solve POST, and with    *)
(* the quota that refresh left not exhausted.  has_balance runs once, at   *)
(* the start of a controller iteration, so a POST in an iteration that     *)
(* has already posted has no refresh before it.                            *)
(***************************************************************************)
C12_RefreshBeforeEveryPost ==
    [][(pc \in {"grid_post", "bbox_post"} /\ acted')
          => /\ "has_balance" \in iterOps
             /\ "post" \notin iterOps
             /\ ~QuotaExhausted(balance, requests_left)]_vars

(***************************************************************************)
(* C13.  api_error set by has_balance (a response without the tier's keys, *)
(* or a failed HTTP exchange) ends the call of solve(): the step after     *)
(* such a refresh is the return, with no detection, classification or      *)
(* solve POST after it.  The controller tests only the two counters, which *)
(* such a response leaves as an earlier refresh set them.                  *)
(***************************************************************************)
C13_ApiErrorAborts ==
    [][(pc = "quota" /\ api_error /\ bal \in {"no_shape", "http_failure"})
          => pc' = "returned"]_vars

(***************************************************************************)
(* C14.  In the bbox solver the poll loop is entered after a POST whose    *)
(* status is not error; a poll answered solved goes to the click, one      *)
(* answered skip or error clicks reload, switches to the default context   *)
(* and returns, and after any other answer the next step of the solver is  *)
(* another poll: nothing else leaves the loop.                             *)
(***************************************************************************)
C14_PollUntilTerminalStatus ==
    [][/\ (pc # "bbox_poll" /\ pc' = "bbox_poll")
             => (pc = "bbox_post" /\ resp'.status # "error")
       /\ (pc = "bbox_post" /\ resp'.status # "error") => pc' = "bbox_poll"
       /\ pc = "bbox_poll"
             => /\ polls' = polls + 1
                /\ resp'.status = "solved"
                      => (pc' = "bbox_click" /\ events' = events /\ ctx' = ctx)
                /\ resp'.status \in {"skip", "error"}
                      => /\ pc' = "loop_end"
                         /\ events' = <<RefreshClick>>
                         /\ ctx' = "default"
                /\ resp'.status \notin {"solved", "skip", "error"}
                      => (pc' = "bbox_poll" /\ events' = events /\ ctx' = ctx)]_vars

C14_Witness ==
    /\ pc = "bbox_click"
    /\ polls = MaxPolls + 1
    /\ resp.status = "solved"
    /\ ctx = "frame"

(***************************************************************************)
(* C15.  A grid POST answered skip or error, a bbox POST answered error    *)
(* and a bbox poll answered skip or error each click the refresh control   *)
(* once and nothing else, switch to the default context and return to the  *)
(* controller, without recursing and without setting solved; the           *)
(* controller then goes to its loop test, and from there to the next       *)
(* balance refresh.                                                        *)
(***************************************************************************)
C15_SkipOrErrorReloadsAndReturns ==
    [][/\ (\/ pc = "grid_post" /\ resp'.status \in {"skip", "error"}
           \/ pc = "bbox_post" /\ resp'.status = "error"
           \/ pc = "bbox_poll" /\ resp'.status \in {"skip", "error"})
             => /\ events' = << <<"refresh", 0, 0>> >>
                /\ ctx' = "default"
                /\ pc' = "loop_end"
                /\ ~solved'
                /\ depth' = depth
                /\ labels' = labels
       /\ (pc = "loop_end" /\ resp.status \in {"skip", "error"})
             => (pc' = "loop" /\ ~solved')
       /\ (pc = "loop" /\ ~solved) => pc' = "balance"]_vars

C15_Witness ==
    /\ pc = "loop_end"
    /\ "solve_hcaptcha_bbox" \in iterOps
    /\ resp.status = "error"
    /\ polls = 0
    /\ events = <<RefreshClick>>
    /\ ctx = "default"
    /\ ~solved

(***************************************************************************)
(* C16.  In challenge detection a bounded wait that times out means        *)
(* "condition not met": whatever the outcomes of the waits, detection      *)
(* returns True or False and no TimeoutException leaves solve().  The      *)
(* presence wait of lines 150-152 is outside every try/suppress.           *)
(***************************************************************************)
C16_DetectionNeverRaises ==
    ~(pc = "raised" /\ exit = "TimeoutException")

(***************************************************************************)
(* C17.  Whenever is_captcha_visible or a solver returns to the            *)
(* controller the browsing context is the default one, on every return     *)
(* path.  The returns on a missing style attribute (line 211), on an empty *)
(* snapshot (line 335) and on a grid status other than solved, skip and    *)
(* error (no branch after line 268) come after switch_to.frame and make no *)
(* switch back.                                                            *)
(***************************************************************************)
C17_ReturnsInDefaultContext ==
    pc \in {"identify", "loop_end"} => ctx = "default"

(***************************************************************************)
(* C18.  The solver dispatched in an iteration depends only on the prompt  *)
(* read in that iteration: a prompt that matches no phrase set is never    *)
(* handed to the grid or bbox solver.  identify_challenge assigns          *)
(* captcha_type only on a match, so the type of an earlier prompt stays.   *)
(***************************************************************************)
C18_DispatchDependsOnPromptOnly ==
    [][(pc = "dispatch" /\ MatchesNone(target)) => pc' \notin EntryPcs]_vars

(***************************************************************************)
(* C19.  With a service that consumes one request per solve POST and never *)
(* refills, poll sequences that end and continuation chains that end,      *)
(* every call of solve() comes to an end: from every loop test the call    *)
(* eventually returns (or raises).  An iteration that reaches no POST (a   *)
(* prompt of no supported type, a missing style, an empty snapshot)        *)
(* consumes nothing and can repeat for ever.                               *)
(***************************************************************************)
C19_EveryCallReturns ==
    (pc = "loop") ~> (pc \in {"returned", "raised"} \/ AtBound)

C21_RequestsLeftNeverNegative ==
    requests_left >= 0

====
